---- MODULE Spec2Model ----
(***************************************************************************)
(* Model of backtest() from src/backtest.py: the per-signal forward scan   *)
(* with fixed and trailing stop, take profit and final-close fallback, and *)
(* the aggregation of the realised pnls (trades, win rate, mean, max       *)
(* drawdown).                                                              *)
(*                                                                         *)
(* Numbers.  Prices, levels and pnls are floats in the source.  Here they  *)
(* are integers counted in ticks; the three coefficients sl_atr, tp_atr    *)
(* and trail_atr are numerators over Scale (3 stands for 1.5), and atr_14  *)
(* cells hold multiples of Scale, so that every product coefficient * atr  *)
(* is an exact number of ticks.  NaN is a distinguished value with the     *)
(* IEEE rules: arithmetic on NaN gives NaN, every ordered comparison with  *)
(* NaN is false.  None is Python's None.                                   *)
(*                                                                         *)
(* The data frame.  Rows are indexed 0..n-1 as in the source.  backtest    *)
(* addresses signal[i] for i < n-1, open/atr_14/high/low at rows >= 1 and  *)
(* close at row n-1 only; the columns below hold `signal` for every row    *)
(* and the other columns for the rows backtest can address.                *)
(***************************************************************************)
EXTENDS Integers, Sequences, FiniteSets

\* ---- bounds of the model ------------------------------------------------
MaxBars == 3
\* longest hand-made pnl list given to the aggregation
MaxTrades == 5

\* ---- representation of floats -------------------------------------------
Scale == 2
NaN == -1000
None == -2000

Prices == {1, 2}
SignalSet == {-1, 0, 1}
AtrValid == {0, Scale}
AtrRaw == {NaN, -Scale, 0, Scale}
SlSet == {1, 3}
TpSet == {1}
TrailSet == {0, 1, 3}
\* pnl values of hand-made trade lists: a loss, a win, a flat trade, and the
\* values of the list [+10, -4, +6, -12, +3]
PnlSamples == {-12, -4, 0, 3, 6, 10}

VARIABLES
    n, signal, open, high, low, close, atr_14,   \* df
    sl_atr, tp_atr, trail_atr,                   \* coefficients
    pnls, i, sig, entry_price, atr, fixed_sl, tp,
    max_high, min_low, exit_price, j, trail_sl,
    exit_kind,                                   \* history: the branch that set exit_price
    entry_idx, exit_idx,                         \* history: entry row and exit row of each trade
    pc, result,
    tasks, merged, par_result, phase             \* one task per signal bar, and their merge

df == <<n, signal, open, high, low, close, atr_14>>
cfg == <<sl_atr, tp_atr, trail_atr>>
trade == <<sig, entry_price, atr, fixed_sl, tp, max_high, min_low, exit_price, j, trail_sl, exit_kind>>
hist == <<entry_idx, exit_idx>>
par == <<tasks, merged, par_result, phase>>
vars == <<df, cfg, pnls, i, trade, hist, pc, result, par>>

\* ---- float arithmetic with NaN -------------------------------------------
IsNaN(x) == x = NaN
Add(x, y) == IF IsNaN(x) \/ IsNaN(y) THEN NaN ELSE x + y
Sub(x, y) == IF IsNaN(x) \/ IsNaN(y) THEN NaN ELSE x - y
\* coefficient (numerator over Scale) times a value
Mul(c, x) == IF IsNaN(x) THEN NaN ELSE (c * x) \div Scale
Le(x, y) == ~IsNaN(x) /\ ~IsNaN(y) /\ x <= y
Lt(x, y) == ~IsNaN(x) /\ ~IsNaN(y) /\ x < y
Ge(x, y) == Le(y, x)
Gt(x, y) == Lt(y, x)
\* Python's builtin max(a, b) / min(a, b): the first argument unless the
\* second compares strictly greater / smaller
PyMax(a, b) == IF Gt(b, a) THEN b ELSE a
PyMin(a, b) == IF Lt(b, a) THEN b ELSE a
\* sig * x for sig in {1, -1}
SigMul(s, x) == IF IsNaN(x) THEN NaN ELSE s * x

\* ---- the per-trade levels (backtest, lines 26-35) -------------------------
\* faulty variant: an undefined atr treated as 0
FixedSlNaNAsZero(entry, s, a) ==
    IF IsNaN(a) THEN entry ELSE Sub(entry, SigMul(s, Mul(sl_atr, a)))
\* fixed_sl = entry_price - sig * sl_atr * atr
FixedSl(entry, s, a) == Sub(entry, SigMul(s, Mul(sl_atr, a)))
\* faulty variant: the target on the stop's side of the entry
TakeProfitWrongSide(entry, s, a) == Sub(entry, SigMul(s, Mul(tp_atr, a)))
\* tp = entry_price + sig * tp_atr * atr
TakeProfit(entry, s, a) == Add(entry, SigMul(s, Mul(tp_atr, a)))

\* ---- one bar of the scan (lines 44-62) -------------------------------------
\* faulty variant: the extreme updated after the checks, so the stop of a bar
\* is computed from the extreme before that bar
MaxHighLagging(mh, h) == mh
\* faulty variant: the running maximum forgotten, the stop trails the current bar
MaxHighCurrentBar(mh, h) == h
\* max_high = max(max_high, high)
MaxHigh(mh, h) == PyMax(mh, h)
\* min_low = min(min_low, low)
MinLow(ml, l) == PyMin(ml, l)
\* faulty variant: the trail distance taken from the scanned bar's atr
TrailLongBarAtr(fixed, maxh, a) ==
    PyMax(fixed, Sub(maxh, Mul(trail_atr, atr_14[j])))
\* faulty variant: a zero trail coefficient switches the trailing stop off
TrailLongOffAtZero(fixed, maxh, a) ==
    IF trail_atr = 0 THEN fixed ELSE PyMax(fixed, Sub(maxh, Mul(trail_atr, a)))
\* trail_sl = max(fixed_sl, max_high - trail_atr * atr)
TrailLong(fixed, maxh, a) == PyMax(fixed, Sub(maxh, Mul(trail_atr, a)))
\* trail_sl = min(fixed_sl, min_low + trail_atr * atr)
TrailShort(fixed, minl, a) == PyMin(fixed, Add(minl, Mul(trail_atr, a)))

StopCond(s, h, l, stop) == IF s = 1 THEN Le(l, stop) ELSE Ge(h, stop)
TargetCond(s, h, l, target) == IF s = 1 THEN Ge(h, target) ELSE Le(l, target)

\* the two checks of a bar, stop first, then target: the branch taken and
\* the exit price it assigns (None: no break on this bar)
\* faulty variant: a stop exit filled at the bar's low
ExitLongAtLow(h, l, stop, target) ==
    IF Le(l, stop) THEN [kind |-> "stop", price |-> l]
    ELSE IF Ge(h, target) THEN [kind |-> "target", price |-> target]
    ELSE [kind |-> "none", price |-> None]
\* faulty variant: a stop exit filled at the bar's high
ExitShortAtHigh(h, l, stop, target) ==
    IF Ge(h, stop) THEN [kind |-> "stop", price |-> h]
    ELSE IF Le(l, target) THEN [kind |-> "target", price |-> target]
    ELSE [kind |-> "none", price |-> None]
\* faulty variant: the target checked before the stop
ExitLongTargetFirst(h, l, stop, target) ==
    IF Ge(h, target) THEN [kind |-> "target", price |-> target]
    ELSE IF Le(l, stop) THEN [kind |-> "stop", price |-> stop]
    ELSE [kind |-> "none", price |-> None]

ExitLong(h, l, stop, target) ==
    IF Le(l, stop) THEN [kind |-> "stop", price |-> stop]
    ELSE IF Ge(h, target) THEN [kind |-> "target", price |-> target]
    ELSE [kind |-> "none", price |-> None]

ExitShort(h, l, stop, target) ==
    IF Ge(h, stop) THEN [kind |-> "stop", price |-> stop]
    ELSE IF Le(l, target) THEN [kind |-> "target", price |-> target]
    ELSE [kind |-> "none", price |-> None]

\* faulty variant: the sign of a short trade dropped
PnlUnsigned(exit, entry, s) == Sub(exit, entry)
\* pnl = (exit_price - entry_price) * sig
Pnl(exit, entry, s) == SigMul(s, Sub(exit, entry))

\* ---- aggregation (lines 76-83) ----------------------------------------------
RECURSIVE SumSeq(_)
SumSeq(arr) == IF arr = <<>> THEN 0 ELSE arr[1] + SumSeq(Tail(arr))
\* faulty variant: a flat trade counted as a win
WinsNonNegative(arr) == Cardinality({k \in 1..Len(arr) : arr[k] >= 0})
\* wins = (arr > 0).sum()
Wins(arr) == Cardinality({k \in 1..Len(arr) : arr[k] > 0})
\* cum = arr.cumsum()
CumSum(arr) == [k \in 1..Len(arr) |-> SumSeq(SubSeq(arr, 1, k))]
SeqMax(s) == CHOOSE m \in {s[k] : k \in 1..Len(s)} : \A k \in 1..Len(s) : s[k] <= m
\* dd = (cum.max() - cum).max()
MaxDD(cum) == SeqMax([k \in 1..Len(cum) |-> SeqMax(cum) - cum[k]])
\* a quotient a / b, kept as the pair <<a, b>>
Frac(a, b) == <<a, b>>
NaNFrac == <<NaN, 1>>
NoResult == [total |-> None, wr |-> <<None, 1>>, avg |-> <<None, 1>>, dd |-> None]
\* faulty variant: zeros instead of NaN for the undefined statistics
EmptySummaryZeros == [total |-> 0, wr |-> <<0, 1>>, avg |-> <<0, 1>>, dd |-> 0]
\* return 0, np.nan, np.nan, np.nan
EmptySummary == [total |-> 0, wr |-> NaNFrac, avg |-> NaNFrac, dd |-> NaN]
Summary(arr) ==
    [total |-> Len(arr),
     wr    |-> Frac(Wins(arr), Len(arr)),
     avg   |-> Frac(SumSeq(arr), Len(arr)),
     dd    |-> MaxDD(CumSum(arr))]

\* ---- initial states: backtest called on a data frame ------------------------
Rows == 1..(n - 1)
WellFormed(hi, lo, x) == \A k \in DOMAIN x : lo[k] <= x[k] /\ x[k] <= hi[k]

InitFrame(AtrS) ==
    /\ n \in 0..MaxBars
    /\ signal \in [0..(n - 1) -> SignalSet]
    /\ high \in [Rows -> Prices]
    /\ low \in {f \in [Rows -> Prices] : \A k \in Rows : f[k] <= high[k]}
    /\ open \in {f \in [Rows -> Prices] : WellFormed(high, low, f)}
    /\ close \in {f \in [(Rows \cap {n - 1}) -> Prices] : WellFormed(high, low, f)}
    /\ atr_14 \in [Rows -> AtrS]

InitLocals ==
    /\ pnls = <<>>
    /\ i = 0
    /\ sig = 0
    /\ entry_price = None
    /\ atr = None
    /\ fixed_sl = None
    /\ tp = None
    /\ max_high = None
    /\ min_low = None
    /\ exit_price = None
    /\ j = 0
    /\ trail_sl = None
    /\ exit_kind = "none"
    /\ entry_idx = <<>>
    /\ exit_idx = <<>>
    /\ pc = "loop"
    /\ result = NoResult
    /\ tasks = <<>>
    /\ merged = <<>>
    /\ par_result = NoResult
    /\ phase = "seq"

InitCfg ==
    /\ sl_atr \in SlSet
    /\ tp_atr \in TpSet
    /\ trail_atr \in TrailSet

Init == InitFrame(AtrValid) /\ InitCfg /\ InitLocals

\* ---- the outer loop: for i in range(n - 1) (lines 21-35) --------------------
\* faulty variant: the loop stops one signal early, range(n - 2)
LoopEndOneShort == n - 2
\* range(n - 1): the first index the loop does not visit
LoopEnd == n - 1
\* faulty variant: the continue forgotten, every signal value opens a trade
SignalFiresAlways(s) == TRUE
\* faulty variant: only a long signal opens a trade
SignalFiresLongOnly(s) == s = 1
\* if sig == 0: continue
SignalFires(s) == s # 0

SkipSignal ==
    /\ pc = "loop"
    /\ i < LoopEnd
    /\ ~SignalFires(signal[i])
    /\ i' = i + 1
    /\ UNCHANGED <<df, cfg, pnls, trade, hist, pc, result, par>>

\* faulty variant: the extremes initialised once, before the outer loop, so a
\* trade starts from the extremes the previous trade left behind
OpenTradeKeepExtremes ==
    /\ pc = "loop"
    /\ i < LoopEnd
    /\ SignalFires(signal[i])
    /\ sig' = signal[i]
    /\ entry_price' = open[i + 1]
    /\ atr' = atr_14[i + 1]
    /\ fixed_sl' = FixedSl(open[i + 1], signal[i], atr_14[i + 1])
    /\ tp' = TakeProfit(open[i + 1], signal[i], atr_14[i + 1])
    /\ max_high' = IF max_high = None THEN open[i + 1] ELSE max_high
    /\ min_low' = IF min_low = None THEN open[i + 1] ELSE min_low
    /\ exit_price' = None
    /\ exit_kind' = "none"
    /\ trail_sl' = None
    /\ j' = i + 1
    /\ pc' = "scan"
    /\ UNCHANGED <<df, cfg, pnls, i, hist, result, par>>
\* lines 22-36: a nonzero signal opens a trade at the next row
OpenTrade ==
    /\ pc = "loop"
    /\ i < LoopEnd
    /\ SignalFires(signal[i])
    /\ sig' = signal[i]
    /\ entry_price' = open[i + 1]
    /\ atr' = atr_14[i + 1]
    /\ fixed_sl' = FixedSl(open[i + 1], signal[i], atr_14[i + 1])
    /\ tp' = TakeProfit(open[i + 1], signal[i], atr_14[i + 1])
    /\ max_high' = open[i + 1]
    /\ min_low' = open[i + 1]
    /\ exit_price' = None
    /\ exit_kind' = "none"
    /\ trail_sl' = None
    /\ j' = i + 1
    /\ pc' = "scan"
    /\ UNCHANGED <<df, cfg, pnls, i, hist, result, par>>

\* ---- the inner loop: for j in range(i+1, n) (lines 39-62) -------------------
\* faulty variant: no break, the scan runs on and a later bar that fires overwrites
\* the exit
NextBarNoBreak(x) ==
    /\ exit_price' = IF x.kind # "none" THEN x.price ELSE exit_price
    /\ exit_kind' = IF x.kind # "none" THEN x.kind ELSE exit_kind
    /\ IF j + 1 >= n
       THEN j' = j /\ pc' = "settle"
       ELSE j' = j + 1 /\ pc' = "scan"
\* faulty variant: a while loop whose index is never advanced
NextBarSameRow(x) ==
    /\ exit_price' = x.price
    /\ exit_kind' = x.kind
    /\ j' = j
    /\ pc' = IF x.kind # "none" THEN "settle" ELSE "scan"
\* the break after an exit, or the next j
NextBar(x) ==
    /\ exit_price' = x.price
    /\ exit_kind' = x.kind
    /\ IF x.kind # "none" \/ j + 1 >= n
       THEN j' = j /\ pc' = "settle"
       ELSE j' = j + 1 /\ pc' = "scan"

ScanLong ==
    /\ pc = "scan"
    /\ sig = 1
    /\ LET mh == MaxHigh(max_high, high[j])
           ts == TrailLong(fixed_sl, mh, atr)
       IN /\ max_high' = mh
          /\ trail_sl' = ts
          /\ NextBar(ExitLong(high[j], low[j], ts, tp))
    /\ UNCHANGED <<df, cfg, pnls, i, sig, entry_price, atr, fixed_sl, tp, min_low, hist, result, par>>

ScanShort ==
    /\ pc = "scan"
    /\ sig # 1
    /\ LET ml == MinLow(min_low, low[j])
           ts == TrailShort(fixed_sl, ml, atr)
       IN /\ min_low' = ml
          /\ trail_sl' = ts
          /\ NextBar(ExitShort(high[j], low[j], ts, tp))
    /\ UNCHANGED <<df, cfg, pnls, i, sig, entry_price, atr, fixed_sl, tp, max_high, hist, result, par>>

\* ---- after the scan (lines 64-70) ---------------------------------------------
\* if exit_price is None: exit_price = df.loc[n-1, 'close']; pnl; pnls.append
Settle ==
    /\ pc = "settle"
    /\ LET ex == IF exit_price = None THEN close[n - 1] ELSE exit_price
       IN /\ exit_price' = ex
          /\ exit_kind' = IF exit_price = None THEN "close" ELSE exit_kind
          /\ pnls' = Append(pnls, Pnl(ex, entry_price, sig))
    /\ entry_idx' = Append(entry_idx, i + 1)
    /\ exit_idx' = Append(exit_idx, j)
    /\ i' = i + 1
    /\ pc' = "loop"
    /\ UNCHANGED <<df, cfg, sig, entry_price, atr, fixed_sl, tp, max_high, min_low, j, trail_sl, result, par>>

\* ---- the return (lines 72-83) ---------------------------------------------------
ReturnEmpty ==
    /\ pc = "loop"
    /\ i >= LoopEnd
    /\ pnls = <<>>
    /\ result' = EmptySummary
    /\ pc' = "done"
    /\ UNCHANGED <<df, cfg, pnls, i, trade, hist, par>>

Aggregate ==
    /\ pc = "loop"
    /\ i >= LoopEnd
    /\ pnls # <<>>
    /\ result' = Summary(pnls)
    /\ pc' = "done"
    /\ UNCHANGED <<df, cfg, pnls, i, trade, hist, par>>

Next ==
    \/ SkipSignal
    \/ OpenTrade
    \/ ScanLong
    \/ ScanShort
    \/ Settle
    \/ ReturnEmpty
    \/ Aggregate

Spec == Init /\ [][Next]_vars

\* atr_14 cells of any kind (undefined, negative, zero, positive), with the
\* coefficients main() defaults to: --sl 1.5 --tp 0.5 --trail 0.5
InitRaw ==
    /\ InitFrame(AtrRaw)
    /\ sl_atr = 3 /\ tp_atr = 1 /\ trail_atr = 1
    /\ InitLocals

SpecRaw == InitRaw /\ [][Next]_vars

\* well-formed frames with the coefficients main() defaults to; the
\* interpreter keeps running the function: a step that can be taken is taken
InitCli ==
    /\ InitFrame(AtrValid)
    /\ sl_atr = 3 /\ tp_atr = 1 /\ trail_atr = 1
    /\ InitLocals

SpecLive == InitCli /\ [][Next]_vars /\ WF_vars(Next)

\* ---- one task per signal bar --------------------------------------------------
\* The body of the outer loop (lines 26-70) run once per signal row as a task
\* of its own, on a record of its own, against the same frame; the tasks take
\* their steps in any order, and their pnls are merged by entry row.
seq == <<pnls, i, trade, hist, pc, result>>
SignalRows == {k \in 0..(LoopEnd - 1) : SignalFires(signal[k])}

\* lines 26-36 for the signal at row k
TaskOpen(k) ==
    [sig         |-> signal[k],
     entry_price |-> open[k + 1],
     atr         |-> atr_14[k + 1],
     fixed_sl    |-> FixedSl(open[k + 1], signal[k], atr_14[k + 1]),
     tp          |-> TakeProfit(open[k + 1], signal[k], atr_14[k + 1]),
     max_high    |-> open[k + 1],
     min_low     |-> open[k + 1],
     exit_price  |-> None,
     exit_kind   |-> "none",
     trail_sl    |-> None,
     j           |-> k + 1,
     pnl         |-> None,
     st          |-> "scan"]

\* the break after an exit, or the next j, on a task's record
TaskNextBar(t, x) ==
    LET last == x.kind # "none" \/ t.j + 1 >= n
    IN [t EXCEPT !.exit_price = x.price,
                 !.exit_kind = x.kind,
                 !.j = IF last THEN t.j ELSE t.j + 1,
                 !.st = IF last THEN "settle" ELSE "scan"]

\* lines 40-62 for one row of a task
TaskBar(t) ==
    IF t.sig = 1
    THEN LET mh == MaxHigh(t.max_high, high[t.j])
             ts == TrailLong(t.fixed_sl, mh, t.atr)
         IN TaskNextBar([t EXCEPT !.max_high = mh, !.trail_sl = ts],
                        ExitLong(high[t.j], low[t.j], ts, t.tp))
    ELSE LET ml == MinLow(t.min_low, low[t.j])
             ts == TrailShort(t.fixed_sl, ml, t.atr)
         IN TaskNextBar([t EXCEPT !.min_low = ml, !.trail_sl = ts],
                        ExitShort(high[t.j], low[t.j], ts, t.tp))

\* lines 65-70 for a task
TaskPnl(t) ==
    LET ex == IF t.exit_price = None THEN close[n - 1] ELSE t.exit_price
    IN [t EXCEPT !.exit_price = ex,
                 !.exit_kind = IF t.exit_price = None THEN "close" ELSE t.exit_kind,
                 !.pnl = Pnl(ex, t.entry_price, t.sig),
                 !.st = "done"]

\* the pnls of the tasks in the order of their entry rows
RECURSIVE MergeFrom(_)
MergeFrom(k) ==
    IF k >= LoopEnd THEN <<>>
    ELSE (IF k \in DOMAIN tasks THEN <<tasks[k].pnl>> ELSE <<>>) \o MergeFrom(k + 1)

Fork ==
    /\ phase = "seq"
    /\ pc = "done"
    /\ tasks' = [k \in SignalRows |-> TaskOpen(k)]
    /\ phase' = "tasks"
    /\ UNCHANGED <<df, cfg, seq, merged, par_result>>

TaskScan(k) ==
    /\ phase = "tasks"
    /\ tasks[k].st = "scan"
    /\ tasks' = [tasks EXCEPT ![k] = TaskBar(tasks[k])]
    /\ UNCHANGED <<df, cfg, seq, merged, par_result, phase>>

TaskSettle(k) ==
    /\ phase = "tasks"
    /\ tasks[k].st = "settle"
    /\ tasks' = [tasks EXCEPT ![k] = TaskPnl(tasks[k])]
    /\ UNCHANGED <<df, cfg, seq, merged, par_result, phase>>

Merge ==
    /\ phase = "tasks"
    /\ \A k \in DOMAIN tasks : tasks[k].st = "done"
    /\ merged' = MergeFrom(0)
    /\ par_result' = IF MergeFrom(0) = <<>> THEN EmptySummary ELSE Summary(MergeFrom(0))
    /\ phase' = "merged"
    /\ UNCHANGED <<df, cfg, seq, tasks>>

NextPar ==
    \/ Next
    \/ Fork
    \/ \E k \in DOMAIN tasks : TaskScan(k)
    \/ \E k \in DOMAIN tasks : TaskSettle(k)
    \/ Merge

SpecPar == InitCli /\ [][NextPar]_vars

\* ---- the aggregation alone ------------------------------------------------------
\* lines 76-83 applied to a hand-made list of pnls: the loop is over (an empty
\* frame, so i >= LoopEnd) and pnls holds the list
InitAgg ==
    /\ n = 0
    /\ signal = <<>> /\ open = <<>> /\ high = <<>> /\ low = <<>>
    /\ close = <<>> /\ atr_14 = <<>>
    /\ sl_atr = 3 /\ tp_atr = 1 /\ trail_atr = 1
    /\ pnls \in UNION {[1..m -> PnlSamples] : m \in 1..MaxTrades}
    /\ i = 0
    /\ sig = 0
    /\ entry_price = None
    /\ atr = None
    /\ fixed_sl = None
    /\ tp = None
    /\ max_high = None
    /\ min_low = None
    /\ exit_price = None
    /\ j = 0
    /\ trail_sl = None
    /\ exit_kind = "none"
    /\ entry_idx = <<>>
    /\ exit_idx = <<>>
    /\ pc = "loop"
    /\ result = NoResult
    /\ tasks = <<>>
    /\ merged = <<>>
    /\ par_result = NoResult
    /\ phase = "seq"

NextAgg == Aggregate

SpecAgg == InitAgg /\ [][NextAgg]_vars

\* ==== properties =============================================================
Scanned == pc \in {"scan", "settle"} /\ trail_sl # None

\* C1 (tie-break): on every bar of a trade's scan, Long or Short, on which
\* both the stop condition and the target condition hold against the stop
\* computed for that bar, the scan ends there and the trade exits at that
\* stop, through the stop branch, never through the target branch.
C1_TieBreak ==
    [][(/\ pc = "scan"
        /\ StopCond(sig, high[j], low[j], trail_sl')
        /\ TargetCond(sig, high[j], low[j], tp))
       => (pc' = "settle" /\ exit_kind' = "stop" /\ exit_price' = trail_sl')]_vars

C1_Witness ==
    /\ pc = "settle"
    /\ exit_kind = "stop"
    /\ TargetCond(sig, high[j], low[j], tp)
    /\ Gt(atr, 0)
    /\ exit_price # tp

\* C2 (stop monotonicity): from one bar of a trade's scan to the next the
\* stop never loosens: it does not decrease for a Long trade and does not
\* increase for a Short trade.
C2_StopMonotone ==
    [][(pc = "scan" /\ trail_sl # None /\ pc' \in {"scan", "settle"})
       => IF sig = 1 THEN Le(trail_sl, trail_sl') ELSE Ge(trail_sl, trail_sl')]_vars

\* a Long trade on a later bar of its scan that sets a new high and lifts
\* the stop above the fixed stop
C2_Witness ==
    /\ pc = "settle"
    /\ sig = 1
    /\ j >= i + 2
    /\ high[j] > high[j - 1]
    /\ high[j] > entry_price
    /\ trail_sl > fixed_sl
    /\ trail_atr > 0

\* C3 as stated: with trail_atr = 0 and positive atr the stop of every
\* scanned bar equals fixed_sl.
C3_Orig ==
    (Scanned /\ trail_atr = 0 /\ Gt(atr, 0)) => trail_sl = fixed_sl

\* C3 (amended): with trail_atr = 0 and positive atr the stop of a scanned
\* bar is the trailing extreme itself (Long: max(entry_price, high), Short:
\* min(entry_price, low)), which lies on the far side of fixed_sl; the stop
\* condition then holds on the entry bar, so the trade exits there, through
\* the stop branch, at the trailing extreme.
C3_TrailZeroStopsAtExtreme ==
    (Scanned /\ trail_atr = 0 /\ Gt(atr, 0)) =>
        /\ trail_sl = IF sig = 1 THEN max_high ELSE min_low
        /\ IF sig = 1 THEN trail_sl > fixed_sl ELSE trail_sl < fixed_sl
        /\ pc = "settle"
        /\ j = i + 1
        /\ exit_kind = "stop"
        /\ exit_price = trail_sl

C3_Witness ==
    /\ Scanned /\ trail_atr = 0 /\ Gt(atr, 0)
    /\ sig = 1
    /\ exit_kind = "stop"
    /\ exit_price = high[j]
    /\ exit_price > entry_price
    /\ ~StopCond(sig, high[j], low[j], fixed_sl)

\* ---- what the properties below speak about ------------------------------------
Last(s) == s[Len(s)]
\* a trade has been settled and its locals are still in place
Closed == pc \in {"loop", "done"} /\ pnls # <<>>
\* the trailing extreme and the stop of the current trade at row k, recomputed
\* from the entry row e
RECURSIVE ExtremeAt(_, _)
ExtremeAt(e, k) ==
    LET prev == IF k = e THEN entry_price ELSE ExtremeAt(e, k - 1)
    IN IF sig = 1 THEN PyMax(prev, high[k]) ELSE PyMin(prev, low[k])
StopAt(e, k) ==
    IF sig = 1 THEN PyMax(fixed_sl, Sub(ExtremeAt(e, k), Mul(trail_atr, atr)))
    ELSE PyMin(fixed_sl, Add(ExtremeAt(e, k), Mul(trail_atr, atr)))
StopFiresAt(e, k) == StopCond(sig, high[k], low[k], StopAt(e, k))
TargetFiresAt(k) == TargetCond(sig, high[k], low[k], tp)
FiresAt(e, k) == StopFiresAt(e, k) \/ TargetFiresAt(k)
\* max over k of (running_max(cum[0..k]) - cum[k])
RunningDD(arr) ==
    LET cum == CumSum(arr)
    IN SeqMax([k \in 1..Len(cum) |-> SeqMax(SubSeq(cum, 1, k)) - cum[k]])
NonzeroSignals == {k \in 0..(n - 2) : signal[k] # 0}

\* C4 as stated: for a non-empty trade list the returned max_drawdown is the
\* maximum over k of the running maximum of cum[0..k] minus cum[k].
C4_Orig ==
    (pc = "done" /\ pnls # <<>>) => result.dd = RunningDD(pnls)

\* C5 as stated: two bars, one nonzero signal at index 0: no trade is opened
\* and the summary is total_trades = 0 with win_rate undefined.
C5_Orig ==
    (pc = "done" /\ n = 2 /\ signal[0] # 0 /\ signal[1] = 0)
        => (pnls = <<>> /\ result.total = 0 /\ result.wr = <<NaN, 1>>)

\* C5 (amended): on two bars a nonzero signal at index 0 opens exactly one
\* trade, entered at row 1 at that row's open, and total_trades = 1; only
\* when signal[0] = 0 (whatever the signal at the final index 1) no trade is
\* opened and the summary is total_trades = 0 with win_rate undefined.
C5_TwoBars ==
    (pc = "done" /\ n = 2) =>
        IF signal[0] # 0
        THEN /\ Len(pnls) = 1
             /\ entry_idx = <<1>>
             /\ entry_price = open[1]
             /\ result.total = 1
        ELSE /\ pnls = <<>>
             /\ result.total = 0
             /\ result.wr = <<NaN, 1>>

C5_Witness ==
    /\ pc = "done" /\ n = 2 /\ signal[0] # 0 /\ signal[1] = 0
    /\ result.total = 1

C7_Orig ==
    (\E k \in Rows : Lt(atr_14[k], 0)) =>
        (result = NoResult /\ ~(atr # None /\ Lt(atr, 0)))

\* C8 (one trade per signal): every nonzero signal at an index below the
\* last opens exactly one trade, entered at the next row at that row's open,
\* also while an earlier trade has not yet reached its exit row; the signal
\* at the final index opens none.  The trades are appended in increasing
\* entry row order, and total_trades is the number of nonzero signals at
\* indices 0..n-2.
C8_OneTradePerSignal ==
    /\ Len(pnls) = Len(entry_idx)
    /\ \A k \in 1..Len(entry_idx) : signal[entry_idx[k] - 1] # 0
    /\ \A k \in 1..(Len(entry_idx) - 1) : entry_idx[k] < entry_idx[k + 1]
    /\ {entry_idx[k] : k \in 1..Len(entry_idx)}
         = {m + 1 : m \in {x \in NonzeroSignals : x < i}}
    /\ pc \in {"scan", "settle"} =>
         (signal[i] # 0 /\ i < n - 1 /\ sig = signal[i] /\ entry_price = open[i + 1])
    /\ pc = "done" => result.total = Cardinality(NonzeroSignals)

\* two trades whose bars overlap, and a nonzero signal at the final index
C8_Witness ==
    /\ pc = "done"
    /\ Len(pnls) = 2
    /\ exit_idx[1] >= entry_idx[2]
    /\ signal[n - 1] # 0
    /\ result.total = 2

\* C9 (fallback): a settled trade has exited through the final close exactly
\* when on no row from its entry row to the last row the stop or the target
\* condition holds; its exit price is then close[n-1] and its pnl is
\* (close[n-1] - entry_price) * sig.
C9_Fallback ==
    Closed =>
        LET e == Last(entry_idx)
        IN /\ (exit_kind = "close") <=> (\A k \in e..(n - 1) : ~FiresAt(e, k))
           /\ exit_kind = "close" =>
                /\ exit_price = close[n - 1]
                /\ Last(exit_idx) = n - 1
                /\ Last(pnls) = (close[n - 1] - entry_price) * sig

C9_Witness ==
    /\ Closed
    /\ exit_kind = "close"
    /\ sig = -1
    /\ Gt(atr, 0)
    /\ Last(entry_idx) < n - 1
    /\ Last(pnls) < 0

\* C10 (first exit wins): a settled trade's exit kind is one of stop, target
\* and final close; if it is stop or target, the exit row is the first row
\* from the entry row on which the stop or target condition holds, and the
\* exit price is that row's stop if the stop condition holds there, else the
\* target.  Once a bar has recorded an exit, the next step settles the trade
\* with that price, and no later step changes a pnl already appended.
C10_ClosedByFirstExit ==
    Closed =>
        LET e == Last(entry_idx)
            x == Last(exit_idx)
        IN /\ exit_kind \in {"stop", "target", "close"}
           /\ exit_kind # "close" =>
                /\ FiresAt(e, x)
                /\ \A k \in e..(x - 1) : ~FiresAt(e, k)
                /\ exit_price = IF StopFiresAt(e, x) THEN StopAt(e, x) ELSE tp
                /\ exit_kind = IF StopFiresAt(e, x) THEN "stop" ELSE "target"
           /\ Last(pnls) = (exit_price - entry_price) * sig

C10_FirstExitWins ==
    /\ []C10_ClosedByFirstExit
    /\ [][/\ (pc = "settle" /\ exit_kind # "none") =>
               /\ exit_price' = exit_price
               /\ exit_kind' = exit_kind
               /\ pnls' = Append(pnls, (exit_price - entry_price) * sig)
          /\ Len(pnls') >= Len(pnls)
          /\ SubSeq(pnls', 1, Len(pnls)) = pnls]_vars

\* a trade that exited before the last row, while a later row would have
\* fired at another price
C10_Witness ==
    /\ Closed
    /\ exit_kind \in {"stop", "target"}
    /\ Gt(atr, 0)
    /\ \E k \in (Last(exit_idx) + 1)..(n - 1) :
          /\ FiresAt(Last(entry_idx), k)
          /\ exit_price # (IF StopFiresAt(Last(entry_idx), k)
                           THEN StopAt(Last(entry_idx), k) ELSE tp)

\* the locals of a trade are in place (it is being scanned or was settled)
HasTrade == pc \in {"scan", "settle"} \/ Closed
\* the row trail_sl was computed on: while the scan goes on j is already the
\* next row
ScannedRow == IF pc = "scan" THEN j - 1 ELSE j

\* C11 as stated: a trade whose entry row has atr 0 or undefined has
\* fixed_sl = tp = entry_price.
C11_Orig ==
    (HasTrade /\ (atr = 0 \/ IsNaN(atr))) => (fixed_sl = entry_price /\ tp = entry_price)

\* C11 (amended): backtest does not stop on an entry row with atr 0 or
\* undefined (a trade in its scan with such an atr always has a next step)
\* and still appends one trade per signal.  With atr = 0 the trade
\* has fixed_sl = tp = entry_price.  With an undefined atr fixed_sl, tp and
\* every stop are NaN, no stop or target condition holds on any row, and the
\* trade exits at the final close.
C11_DegenerateVolatility ==
    /\ HasTrade /\ atr = 0 => (fixed_sl = entry_price /\ tp = entry_price)
    /\ HasTrade /\ IsNaN(atr) =>
         /\ IsNaN(fixed_sl) /\ IsNaN(tp)
         /\ trail_sl # None => IsNaN(trail_sl)
         /\ exit_kind \in {"none", "close"}
         /\ Closed => (exit_kind = "close" /\ exit_price = close[n - 1])
    /\ (pc \in {"scan", "settle"} /\ (atr = 0 \/ IsNaN(atr))) => ENABLED Next
    /\ pc = "done" => result.total = Cardinality(NonzeroSignals)

C11_Witness ==
    /\ Closed
    /\ IsNaN(atr)
    /\ exit_kind = "close"
    /\ Last(exit_idx) > Last(entry_idx)
    /\ Last(pnls) # 0

\* C12 (scenario B): a Long trade with sl_atr = 1.5, tp_atr = 0.5,
\* trail_atr = 0.5 and positive atr, whose scan reaches a row where the high
\* is at or above tp while the low is above that row's stop, exits there at
\* tp, and its pnl is tp - entry_price = tp_atr * atr.
C12_TargetExit ==
    (/\ sl_atr = 3 /\ tp_atr = 1 /\ trail_atr = 1
     /\ HasTrade /\ trail_sl # None
     /\ sig = 1 /\ Gt(atr, 0)
     /\ Ge(high[ScannedRow], tp) /\ Gt(low[ScannedRow], trail_sl))
    => /\ pc # "scan"
       /\ exit_kind = "target"
       /\ exit_price = tp
       /\ Closed => /\ Last(exit_idx) = j
                    /\ Last(pnls) = tp - entry_price
                    /\ 2 * Last(pnls) = atr

C12_Witness ==
    /\ sl_atr = 3 /\ tp_atr = 1 /\ trail_atr = 1
    /\ Closed
    /\ sig = 1 /\ Gt(atr, 0)
    /\ exit_kind = "target"
    /\ Last(pnls) > 0

\* C13 (scenario C): a stop exit is never at a price beyond fixed_sl (Long:
\* exit_price >= fixed_sl, Short: exit_price <= fixed_sl).  A Short trade
\* with positive atr that exits through the stop on a row where the trailing
\* level min_low + trail_atr * atr is below fixed_sl exits exactly at that
\* level, below fixed_sl, with a pnl above -sl_atr * atr.
C13_TrailingExit ==
    (HasTrade /\ exit_kind = "stop") =>
        /\ IF sig = 1 THEN exit_price >= fixed_sl ELSE exit_price <= fixed_sl
        /\ (sig = -1 /\ Gt(atr, 0) /\ min_low + (trail_atr * atr) \div Scale < fixed_sl) =>
             /\ exit_price = min_low + (trail_atr * atr) \div Scale
             /\ exit_price < fixed_sl
             /\ Closed => Last(pnls) > -((sl_atr * atr) \div Scale)

\* a Short trade whose low fell on a row after the entry row and that was
\* stopped there at the trailing level
C13_Witness ==
    /\ Closed
    /\ exit_kind = "stop"
    /\ sig = -1 /\ Gt(atr, 0)
    /\ Last(exit_idx) > Last(entry_idx)
    /\ min_low < entry_price
    /\ exit_price < fixed_sl
    /\ exit_price > min_low

\* C15 (empty result): when no index below the last carries a nonzero signal
\* no trade is opened, no step is an error, and backtest returns
\* (0, NaN, NaN, NaN); no returned quotient has a zero divisor.
C15_EmptyResult ==
    /\ NonzeroSignals = {} =>
         /\ pnls = <<>>
         /\ pc \in {"loop", "done"}
         /\ pc = "loop" => ENABLED Next
         /\ pc = "done" =>
              /\ result.total = 0
              /\ result.wr = <<NaN, 1>>
              /\ result.avg = <<NaN, 1>>
              /\ result.dd = NaN
    /\ pc = "done" => (result.wr[2] # 0 /\ result.avg[2] # 0)

C15_Witness ==
    /\ pc = "done"
    /\ n = MaxBars
    /\ NonzeroSignals = {}
    /\ signal[n - 1] # 0
    /\ result.total = 0

\* the entry row of the trade whose locals are in place
EntryRow == IF Closed THEN Last(entry_idx) ELSE i + 1

\* C18 (frozen entry levels): from the first scanned row until the trade is
\* settled, entry_price and atr are the open and atr_14 of the entry row,
\* fixed_sl and tp are the levels computed from them, and the stop of every
\* row is computed with the entry row's atr, not that row's.
C18_FrozenLevels ==
    HasTrade =>
        LET e == EntryRow
            dist(c) == (c * atr_14[e]) \div Scale
        IN /\ entry_price = open[e]
           /\ atr = atr_14[e]
           /\ fixed_sl = open[e] - sig * dist(sl_atr)
           /\ tp = open[e] + sig * dist(tp_atr)
           /\ trail_sl # None =>
                trail_sl = IF sig = 1
                           THEN (IF max_high - dist(trail_atr) > fixed_sl
                                 THEN max_high - dist(trail_atr) ELSE fixed_sl)
                           ELSE (IF min_low + dist(trail_atr) < fixed_sl
                                 THEN min_low + dist(trail_atr) ELSE fixed_sl)

\* a Long trade scanned past its entry row onto a row with another atr and
\* another open
C18_Witness ==
    /\ pc = "settle"
    /\ sig = 1
    /\ j > i + 1
    /\ atr_14[j] # atr
    /\ open[j] # entry_price
    /\ trail_atr > 0
    /\ trail_sl > fixed_sl

\* C19 (loss cap): every appended pnl is at least -sl_atr * atr of its entry
\* row, whichever branch closed the trade.
C19_LossCap ==
    \A k \in 1..Len(pnls) :
        pnls[k] >= -((sl_atr * atr_14[entry_idx[k]]) \div Scale)

\* the cap is attained by a stop exit at fixed_sl
C19_Witness ==
    /\ Closed
    /\ Gt(atr, 0)
    /\ exit_kind = "stop"
    /\ exit_price = fixed_sl
    /\ Last(pnls) = -((sl_atr * atr) \div Scale)

\* C20 (entry-row target): with trail_atr <= tp_atr and positive atr, a trade
\* whose entry row reaches tp is stopped on that row: it exits through the
\* stop branch at the trailing level (Long: high - trail_atr * atr, Short:
\* low + trail_atr * atr), never at tp.
C20_EntryRowTargetUnreachable ==
    (/\ HasTrade /\ trail_sl # None
     /\ Gt(atr, 0)
     /\ trail_atr <= tp_atr
     /\ TargetCond(sig, high[EntryRow], low[EntryRow], tp))
    => /\ pc # "scan"
       /\ j = EntryRow
       /\ exit_kind = "stop"
       /\ exit_price = IF sig = 1
                       THEN high[EntryRow] - (trail_atr * atr) \div Scale
                       ELSE low[EntryRow] + (trail_atr * atr) \div Scale

\* the coefficients main() defaults to, a Long entry row that reaches tp
C20_Witness ==
    /\ sl_atr = 3 /\ tp_atr = 1 /\ trail_atr = 1
    /\ pc = "settle"
    /\ sig = 1 /\ Gt(atr, 0)
    /\ j = i + 1
    /\ Ge(high[j], tp)
    /\ exit_kind = "stop"
    /\ exit_price # tp

\* the sum of a list, taken from its end
RECURSIVE Total(_)
Total(arr) ==
    IF Len(arr) = 0 THEN 0 ELSE Total(SubSeq(arr, 1, Len(arr) - 1)) + arr[Len(arr)]
\* the quotient q = <<a, b>> equals num / den
IsQuotient(q, num, den) == q[2] # 0 /\ q[1] * den = num * q[2]

\* C14 (aggregation): for a non-empty list of pnls total_trades is its
\* length, win_rate is the number of pnls strictly above 0 (a pnl of 0 is
\* not a win) over total_trades, and avg_pnl is the sum over total_trades;
\* the list [+10, -4, +6, -12, +3] gives 5, 0.6, 0.6 and max_drawdown 12.
C14_Aggregation ==
    (pc = "done" /\ pnls # <<>>) =>
        /\ result.total = Len(pnls)
        /\ IsQuotient(result.wr,
                      Len(pnls) - Cardinality({k \in 1..Len(pnls) : pnls[k] <= 0}),
                      Len(pnls))
        /\ IsQuotient(result.avg, Total(pnls), Len(pnls))
        /\ pnls = <<10, -4, 6, -12, 3>> =>
             /\ result.total = 5
             /\ IsQuotient(result.wr, 6, 10)
             /\ IsQuotient(result.avg, 6, 10)
             /\ result.dd = 12

C14_Witness ==
    /\ pc = "done"
    /\ pnls = <<10, -4, 6, -12, 3>>
    /\ result.total = 5
    /\ result.wr = <<3, 5>>
    /\ result.dd = 12

\* C17 (termination): a scan visits the rows from the entry row to the last
\* one at most once each, in increasing order, the outer index only grows,
\* and every call eventually returns its summary.
C17_Termination ==
    /\ [](pc \in {"scan", "settle"} => (i + 1 <= j /\ j <= n - 1 /\ i < n - 1))
    /\ [][/\ (pc = "scan" /\ pc' = "scan") => j' = j + 1
          /\ (pc = "scan" /\ pc' = "settle") => j' = j
          /\ i' \in {i, i + 1}
          /\ pc = "done" => pc' = "done"]_vars
    /\ <>(pc = "done" /\ result # NoResult)

\* a returned call whose last trade was scanned to the last row of the
\* longest frame
C17_Witness ==
    /\ pc = "done"
    /\ n = MaxBars
    /\ Len(pnls) = n - 1
    /\ exit_idx[1] = n - 1
    /\ entry_idx[1] = 1

\* the position in pnls of the trade entered at row e
TradeAt(e) == CHOOSE k \in 1..Len(pnls) : entry_idx[k] = e

\* C16 (trade independence): a task run for one signal row alone, from a
\* record of its own, ends on the row and with the pnl the sequential scan
\* recorded for that signal, whatever the other tasks have done so far; the
\* merge of the tasks by entry row is the sequential trade list and its
\* summary the sequential summary; no step changes the frame or the
\* coefficients, a task step changes the record of one task only, a finished
\* task's record and an appended pnl are never changed again.
C16_Independence ==
    /\ [](phase \in {"tasks", "merged"} =>
            /\ DOMAIN tasks = {entry_idx[k] - 1 : k \in 1..Len(pnls)}
            /\ \A r \in DOMAIN tasks :
                  tasks[r].st = "done" =>
                     /\ tasks[r].pnl = pnls[TradeAt(r + 1)]
                     /\ tasks[r].j = exit_idx[TradeAt(r + 1)])
    /\ [](phase = "merged" => (merged = pnls /\ par_result = result))
    /\ [][/\ df' = df
          /\ cfg' = cfg
          /\ Len(pnls') >= Len(pnls)
          /\ SubSeq(pnls', 1, Len(pnls)) = pnls
          /\ phase = "tasks" =>
                /\ DOMAIN tasks' = DOMAIN tasks
                /\ Cardinality({r \in DOMAIN tasks : tasks'[r] # tasks[r]}) <= 1
                /\ \A r \in DOMAIN tasks : tasks[r].st = "done" => tasks'[r] = tasks[r]]_vars

\* two overlapping trades whose tasks finish out of order: the later signal's
\* task is done while the earlier one, which the sequential scan closed on a
\* later row, has not scanned a bar yet
C16_Witness ==
    /\ phase = "tasks"
    /\ \E a, b \in DOMAIN tasks :
          /\ a < b
          /\ tasks[a].st = "scan" /\ tasks[a].trail_sl = None
          /\ tasks[b].st = "done"
          /\ exit_idx[TradeAt(a + 1)] > b

====
